---- MODULE Spec2Model ----
(***************************************************************************)
(* Lightning Address -> BOLT11 invoice pipeline, in its two variants:      *)
(*   "cli"      src/lightning-address-invoice-generator.py  (get_bolt11)   *)
(*   "tutorial" src/ln-address-tutorial.py  (create_lightning_invoice)     *)
(* One behaviour of the model is one call of the pipeline entry point.     *)
(* Python strings are sequences of one-character strings, so that          *)
(* splitting, concatenation, str() and upper() are computed, not assumed.  *)
(* Python values are records [t, s, n]: t is the Python type, s the text   *)
(* of a str (or the message of the error dict), n the value of an int.     *)
(***************************************************************************)
EXTENDS Integers, Sequences, FiniteSets, TLC

\* ---------------------------------------------------------------- bounds
MaxAddrLen == 4
MaxAmount == 3
MaxSendableK == 2

\* ---------------------------------------------------------- Python values
PyStr(str) == [t |-> "str", s |-> str, n |-> 0]
PyInt(i) == [t |-> "int", s |-> <<>>, n |-> i]
PyNone == [t |-> "None", s |-> <<>>, n |-> 0]
PyDict(msg) == [t |-> "dict", s |-> msg, n |-> 0]
\* a local name that has not been assigned yet
Unbound == [t |-> "unbound", s |-> <<>>, n |-> 0]

Digit(d) == <<"0", "1", "2", "3", "4", "5", "6", "7", "8", "9">>[d + 1]

\* str(i) of a non-negative int: its decimal digits
RECURSIVE Str(_)
Str(i) == IF i < 10 THEN <<Digit(i)>> ELSE Str(i \div 10) \o <<Digit(i % 10)>>

UpperChar(c) == IF c = "l" THEN "L" ELSE IF c = "n" THEN "N" ELSE c

\* str.upper()
Upper(str) == [i \in 1..Len(str) |-> UpperChar(str[i])]

\* str.split('@')
RECURSIVE Split(_)
Split(str) ==
    IF \E i \in 1..Len(str) : str[i] = "@"
    THEN LET i == CHOOSE k \in 1..Len(str) :
                     str[k] = "@" /\ \A j \in 1..(k - 1) : str[j] # "@"
         IN  <<SubSeq(str, 1, i - 1)>> \o Split(SubSeq(str, i + 1, Len(str)))
    ELSE <<str>>

\* ------------------------------------------------------------ input sets
AddrChars == {"u", "@", "."}
Addresses == UNION {[1..k -> AddrChars] : k \in 0..MaxAddrLen}
Amounts == {PyNone} \cup {PyInt(a) : a \in 0..MaxAmount}
Msats == {1000 * k : k \in 1..MaxSendableK}
Statuses == {200, 404}
CallbackUrl == <<"https://", "svc", "/cb">>
PrTexts == {<<"l", "n", "1">>}
ReasonTexts == {<<"n", "o">>}

\* JSON objects are functions from the keys present to Python values
DiscoveryFieldValues(k) ==
    IF k = "callback" THEN {PyStr(CallbackUrl)} ELSE {PyInt(m) : m \in Msats}

DiscoveryObjects ==
    UNION {{f \in [K -> {PyStr(CallbackUrl)} \cup {PyInt(m) : m \in Msats}] :
               \A k \in K : f[k] \in DiscoveryFieldValues(k)} :
           K \in SUBSET {"callback", "minSendable", "maxSendable"}}

InvoiceFieldValues(k) ==
    IF k = "pr" THEN {PyStr(p) : p \in PrTexts} ELSE {PyStr(r) : r \in ReasonTexts}

InvoiceObjects ==
    UNION {{f \in [K -> {PyStr(p) : p \in PrTexts \cup ReasonTexts}] :
               \A k \in K : f[k] \in InvoiceFieldValues(k)} :
           K \in SUBSET {"pr", "reason"}}

\* What requests.get can do: raise (exc), or answer with a status and a body
\* that is either JSON text of an object (json) or not JSON at all.
TransportFailure == [exc |-> TRUE, status |-> 0, json |-> FALSE, obj |-> <<>>]
Responses(objects) ==
    {TransportFailure}
    \cup {[exc |-> FALSE, status |-> st, json |-> FALSE, obj |-> <<>>] : st \in Statuses}
    \cup {[exc |-> FALSE, status |-> st, json |-> TRUE, obj |-> o] :
             st \in Statuses, o \in objects}

\* requests.get(url): a URL whose scheme is not followed by a host cannot be
\* answered by any server, so the call can only raise
HasHost(url) ==
    /\ Len(url) >= 2
    /\ url[1] = "https://"
    /\ url[2] \notin {"/.well-known/lnurlp/", "/cb", "?amount="}
ResponsesFor(url, objects) ==
    IF HasHost(url) THEN Responses(objects) ELSE {TransportFailure}

\* dict.get(key)
Get(obj, key) == IF key \in DOMAIN obj THEN obj[key] ELSE PyNone

VARIABLES
    variant,        \* which of the two programs runs
    lnaddress,      \* the address argument
    amount,         \* the amount argument (PyNone when absent)
    pc,             \* position in the entry point
    purl,           \* cli: get_bolt11.purl
    lnurlpay,       \* cli: get_bolt11.lnurlpay
    min_amount,     \* cli: get_bolt11.min_amount
    max_amount,     \* cli: get_bolt11.max_amount
    payquery,       \* cli: get_bolt11.payquery
    discovery_url,  \* tutorial: create_lightning_invoice.discovery_url
    payment_params, \* tutorial: create_lightning_invoice.payment_params
    invoice_request_url, \* tutorial: generate_invoice.invoice_request_url
    requests,       \* URLs handed to requests.get, in order
    responses,      \* what requests.get did for each of them
    exc,            \* the last exception raised ("" when none)
    outcome,        \* "running", "returned" or "raised"
    result          \* the value returned

vars == <<variant, lnaddress, amount, pc, purl, lnurlpay, min_amount, max_amount,
          payquery, discovery_url, payment_params, invoice_request_url,
          requests, responses, exc, outcome, result>>

cliLocals == <<purl, lnurlpay, min_amount, max_amount, payquery>>
tutLocals == <<discovery_url, payment_params, invoice_request_url>>
args == <<variant, lnaddress, amount>>

NoParams == [t |-> "unbound", callback |-> Unbound, minSendable |-> Unbound,
             maxSendable |-> Unbound]

Init ==
    /\ variant \in {"cli", "tutorial"}
    /\ lnaddress \in Addresses
    /\ amount \in Amounts
    /\ pc = "parse"
    /\ purl = Unbound
    /\ lnurlpay = Unbound
    /\ min_amount = Unbound
    /\ max_amount = Unbound
    /\ payquery = Unbound
    /\ discovery_url = Unbound
    /\ payment_params = NoParams
    /\ invoice_request_url = Unbound
    /\ requests = <<>>
    /\ responses = <<>>
    /\ exc = ""
    /\ outcome = "running"
    /\ result = Unbound

\* ======================================================== cli variant
ErrorRecord == PyDict(<<"Possibly a malformed LN Address">>)

TransformUrl(domain, username) ==
    <<"https://">> \o domain \o <<"/.well-known/lnurlp/">> \o username

get_payurlSwapped(addr) ==
    LET parts == Split(addr)
    IN  IF Len(parts) < 2
        THEN ErrorRecord
        ELSE PyStr(TransformUrl(parts[1], parts[2]))

\* get_payurl lines 10-19
get_payurl(addr) ==
    LET parts == Split(addr)
    IN  IF Len(parts) < 2
        THEN ErrorRecord                       \* parts[1]: IndexError, caught
        ELSE PyStr(TransformUrl(parts[2], parts[1]))

\* get_bolt11 line 27
CliParse ==
    /\ variant = "cli"
    /\ pc = "parse"
    /\ purl' = get_payurl(lnaddress)
    /\ pc' = "discovery"
    /\ UNCHANGED <<args, lnurlpay, min_amount, max_amount, payquery, tutLocals,
                   requests, responses, exc, outcome, result>>

\* get_bolt11 lines 28-36. requests.get refuses a path that is not a URL
\* string before it opens any connection.
CliDiscovery ==
    /\ variant = "cli"
    /\ pc = "discovery"
    /\ IF purl.t # "str"
       THEN /\ exc' = "InvalidSchema"
            /\ pc' = "except"
            /\ UNCHANGED <<requests, responses, lnurlpay, min_amount, max_amount>>
       ELSE \E r \in ResponsesFor(purl.s, DiscoveryObjects) :
            /\ requests' = Append(requests, purl.s)
            /\ responses' = Append(responses, r)
            /\ IF r.exc
               THEN /\ exc' = "RequestException"
                    /\ pc' = "except"
                    /\ UNCHANGED <<lnurlpay, min_amount, max_amount>>
               ELSE IF ~r.json
               THEN /\ exc' = "JSONDecodeError"
                    /\ pc' = "except"
                    /\ UNCHANGED <<lnurlpay, min_amount, max_amount>>
               ELSE LET datablock == r.obj
                        has(k) == k \in DOMAIN datablock
                    IN  /\ lnurlpay' = IF has("callback")
                                       THEN datablock["callback"] ELSE lnurlpay
                        /\ min_amount' = IF has("callback") /\ has("minSendable")
                                         THEN datablock["minSendable"] ELSE min_amount
                        /\ max_amount' = IF has("callback") /\ has("minSendable")
                                            /\ has("maxSendable")
                                         THEN datablock["maxSendable"] ELSE max_amount
                        /\ IF has("callback") /\ has("minSendable") /\ has("maxSendable")
                           THEN pc' = "amount" /\ exc' = exc
                           ELSE pc' = "except" /\ exc' = "KeyError"
    /\ UNCHANGED <<args, purl, payquery, tutLocals, outcome, result>>

TooHigh == "ValueError: Amount is more than maximum sendable"
TooLow == "ValueError: Amount is less than minimum sendable"

Query(callback, msat) == callback \o <<"?amount=">> \o Str(msat)

AmountStepSats(amt, callback, lo, hi) ==
    IF amt.t = "None"
    THEN [raise |-> "", payquery |-> Query(callback, lo)]
    ELSE IF amt.n > hi THEN [raise |-> TooHigh, payquery |-> Query(callback, lo)]
    ELSE IF amt.n >= lo THEN [raise |-> "", payquery |-> Query(callback, amt.n)]
    ELSE [raise |-> TooLow, payquery |-> Query(callback, lo)]

AmountStepDefaultScaled(amt, callback, lo, hi) ==
    LET amount_msat == amt.n * 1000
    IN  IF amt.t = "None"
        THEN [raise |-> "", payquery |-> Query(callback, lo * 1000)]
        ELSE IF amount_msat > hi
        THEN [raise |-> TooHigh, payquery |-> Query(callback, lo)]
        ELSE IF amount_msat >= lo
        THEN [raise |-> "", payquery |-> Query(callback, amount_msat)]
        ELSE [raise |-> TooLow, payquery |-> Query(callback, lo)]

\* get_bolt11 lines 38-46 as a function of the amount, the callback and the
\* advertised bounds: the exception raised ("" for none) and payquery
AmountStep(amt, callback, lo, hi) ==
    LET amount_msat == amt.n * 1000
    IN  IF amt.t = "None"
        THEN [raise |-> "", payquery |-> Query(callback, lo)]
        ELSE IF amount_msat > hi
        THEN [raise |-> TooHigh, payquery |-> Query(callback, lo)]
        ELSE IF amount_msat >= lo
        THEN [raise |-> "", payquery |-> Query(callback, amount_msat)]
        ELSE [raise |-> TooLow, payquery |-> Query(callback, lo)]

\* get_bolt11 lines 38-49
CliAmount ==
    /\ variant = "cli"
    /\ pc = "amount"
    /\ LET v == AmountStep(amount, lnurlpay.s, min_amount.n, max_amount.n)
       IN  /\ payquery' = PyStr(v.payquery)
           /\ IF v.raise = ""
              THEN pc' = "invoice" /\ exc' = exc
              ELSE pc' = "except" /\ exc' = v.raise
    /\ UNCHANGED <<args, purl, lnurlpay, min_amount, max_amount, tutLocals,
                   requests, responses, outcome, result>>

InvoiceResultReasonFirst(pr_dict) ==
    IF "reason" \in DOMAIN pr_dict THEN pr_dict["reason"]
    ELSE IF "pr" \in DOMAIN pr_dict THEN PyStr(Upper(pr_dict["pr"].s))
    ELSE PyNone

\* get_bolt11 lines 54-61, and the implicit return None after them
InvoiceResult(pr_dict) ==
    IF "pr" \in DOMAIN pr_dict THEN PyStr(Upper(pr_dict["pr"].s))
    ELSE IF "reason" \in DOMAIN pr_dict THEN pr_dict["reason"]
    ELSE PyNone

\* get_bolt11 lines 51-61
CliInvoice ==
    /\ variant = "cli"
    /\ pc = "invoice"
    /\ \E r \in ResponsesFor(payquery.s, InvoiceObjects) :
        /\ requests' = Append(requests, payquery.s)
        /\ responses' = Append(responses, r)
        /\ IF r.exc
           THEN pc' = "except" /\ exc' = "RequestException"
                /\ UNCHANGED <<outcome, result>>
           ELSE IF ~r.json
           THEN pc' = "except" /\ exc' = "JSONDecodeError"
                /\ UNCHANGED <<outcome, result>>
           ELSE /\ result' = InvoiceResult(r.obj)
                /\ outcome' = "returned"
                /\ pc' = "done"
                /\ exc' = exc
    /\ UNCHANGED <<args, cliLocals, tutLocals>>

\* the msg of the error record (its backquotes are written as quotes here)
ErrorMsg(addr, lo, hi) ==
    <<"Cannot make a Bolt11, are you sure the address '">> \o addr
    \o <<"' is valid and the amount withing the allowed range [">>
    \o Str(lo \div 1000) \o <<"; ">> \o Str(hi \div 1000) \o <<"] Satoshi?">>

\* get_bolt11 lines 63-65: the handler reads min_amount and max_amount
CliExcept ==
    /\ variant = "cli"
    /\ pc = "except"
    /\ pc' = "done"
    /\ IF min_amount.t = "unbound" \/ max_amount.t = "unbound"
       THEN /\ exc' = "UnboundLocalError"
            /\ outcome' = "raised"
            /\ result' = result
       ELSE /\ result' = PyDict(ErrorMsg(lnaddress, min_amount.n, max_amount.n))
            /\ outcome' = "returned"
            /\ exc' = exc
    /\ UNCHANGED <<args, cliLocals, tutLocals, requests, responses>>

\* ==================================================== tutorial variant
\* f"{value}" of a str, an int or None
Format(v) == IF v.t = "str" THEN v.s ELSE IF v.t = "int" THEN Str(v.n) ELSE <<"None">>

\* build_lnurl_pay_url lines 35-52
build_lnurl_pay_url(addr) ==
    LET address_parts == Split(addr)
    IN  IF Len(address_parts) # 2
        THEN PyNone
        ELSE PyStr(<<"https://">> \o address_parts[2]
                   \o <<"/.well-known/lnurlp/">> \o address_parts[1])

\* create_lightning_invoice lines 153-155
TutParse ==
    /\ variant = "tutorial"
    /\ pc = "parse"
    /\ discovery_url' = build_lnurl_pay_url(lnaddress)
    /\ IF discovery_url'.t = "None" \/ discovery_url'.s = <<>>
       THEN pc' = "done" /\ outcome' = "returned" /\ result' = PyNone
       ELSE pc' = "discovery" /\ UNCHANGED <<outcome, result>>
    /\ UNCHANGED <<args, cliLocals, payment_params, invoice_request_url,
                   requests, responses, exc>>

\* create_lightning_invoice lines 158-160 with fetch_payment_parameters
\* lines 68-92; no exception is caught in this variant
TutDiscovery ==
    /\ variant = "tutorial"
    /\ pc = "discovery"
    /\ \E r \in ResponsesFor(discovery_url.s, DiscoveryObjects) :
        /\ requests' = Append(requests, discovery_url.s)
        /\ responses' = Append(responses, r)
        /\ IF r.exc
           THEN /\ exc' = "RequestException"
                /\ pc' = "done" /\ outcome' = "raised"
                /\ UNCHANGED <<payment_params, result>>
           ELSE IF r.status # 200
           THEN /\ payment_params' = [NoParams EXCEPT !.t = "None"]
                /\ pc' = "done" /\ outcome' = "returned" /\ result' = PyNone
                /\ exc' = exc
           ELSE IF ~r.json
           THEN /\ exc' = "JSONDecodeError"
                /\ pc' = "done" /\ outcome' = "raised"
                /\ UNCHANGED <<payment_params, result>>
           ELSE LET callback_url == Get(r.obj, "callback")
                    min_sendable == Get(r.obj, "minSendable")
                    max_sendable == Get(r.obj, "maxSendable")
                IN  IF min_sendable.t # "int" \/ max_sendable.t # "int"
                    THEN /\ exc' = "TypeError"       \* None / 1000, lines 85-86
                         /\ pc' = "done" /\ outcome' = "raised"
                         /\ UNCHANGED <<payment_params, result>>
                    ELSE /\ payment_params' = [t |-> "dict",
                                               callback |-> callback_url,
                                               minSendable |-> min_sendable,
                                               maxSendable |-> max_sendable]
                         /\ pc' = "amount"
                         /\ UNCHANGED <<exc, outcome, result>>
    /\ UNCHANGED <<args, cliLocals, discovery_url, invoice_request_url>>

Max(a, b) == IF a >= b THEN a ELSE b

\* generate_invoice lines 105-114
InvoiceRequestUrl(callback_url, amount_sats, min_sendable) ==
    LET amount_millisats == amount_sats * 1000
        final_amount == Max(amount_millisats, min_sendable)
    IN  Format(callback_url) \o <<"?amount=">> \o Str(final_amount)

\* create_lightning_invoice line 163 entering generate_invoice, lines 105-115
TutAmount ==
    /\ variant = "tutorial"
    /\ pc = "amount"
    /\ IF amount.t # "int"
       THEN /\ exc' = "TypeError"                    \* None * 1000, line 105
            /\ pc' = "done" /\ outcome' = "raised"
            /\ UNCHANGED invoice_request_url
       ELSE /\ invoice_request_url' =
                  PyStr(InvoiceRequestUrl(payment_params.callback, amount.n,
                                          payment_params.minSendable.n))
            /\ pc' = "invoice"
            /\ UNCHANGED <<exc, outcome>>
    /\ UNCHANGED <<args, cliLocals, discovery_url, payment_params,
                   requests, responses, result>>

\* generate_invoice lines 129-142
TutInvoiceResult(invoice_response) ==
    IF "pr" \in DOMAIN invoice_response
    THEN PyStr(Upper(invoice_response["pr"].s))
    ELSE PyNone

\* generate_invoice lines 118-142 and create_lightning_invoice line 169
TutInvoice ==
    /\ variant = "tutorial"
    /\ pc = "invoice"
    /\ pc' = "done"
    /\ \E r \in ResponsesFor(invoice_request_url.s, InvoiceObjects) :
        /\ requests' = Append(requests, invoice_request_url.s)
        /\ responses' = Append(responses, r)
        /\ IF r.exc
           THEN exc' = "RequestException" /\ outcome' = "raised" /\ result' = result
           ELSE IF r.status # 200
           THEN exc' = exc /\ outcome' = "returned" /\ result' = PyNone
           ELSE IF ~r.json
           THEN exc' = "JSONDecodeError" /\ outcome' = "raised" /\ result' = result
           ELSE exc' = exc /\ outcome' = "returned"
                /\ result' = TutInvoiceResult(r.obj)
    /\ UNCHANGED <<args, cliLocals, tutLocals>>

Next ==
    \/ CliParse \/ CliDiscovery \/ CliAmount \/ CliInvoice \/ CliExcept
    \/ TutParse \/ TutDiscovery \/ TutAmount \/ TutInvoice

Spec == Init /\ [][Next]_vars

\* ============================================================= claims
\* Well-formedness of an address, stated on its characters
AtPositions(addr) == {i \in 1..Len(addr) : addr[i] = "@"}
UserPart(addr) == SubSeq(addr, 1, (CHOOSE i \in AtPositions(addr) : TRUE) - 1)
DomainPart(addr) ==
    SubSeq(addr, (CHOOSE i \in AtPositions(addr) : TRUE) + 1, Len(addr))
WellFormed(addr) ==
    /\ Cardinality(AtPositions(addr)) = 1
    /\ UserPart(addr) # <<>>
    /\ \E i \in 1..Len(DomainPart(addr)) : DomainPart(addr)[i] = "."

\* the value the parse step left behind: the discovery URL or a failure value
ParsedUrl == IF variant = "cli" THEN purl ELSE discovery_url
\* the parse, discovery and amount steps are behind the run
AmountStepDone == pc \in {"invoice", "except", "done"} /\ Len(responses) >= 1
CliBoundsKnown ==
    /\ variant = "cli"
    /\ AmountStepDone
    /\ lnurlpay.t = "str" /\ min_amount.t = "int" /\ max_amount.t = "int"
StageOf(p) ==
    CASE p = "parse" -> 0
      [] p = "discovery" -> 1
      [] p = "amount" -> 2
      [] p = "invoice" -> 3
      [] p = "except" -> 4
      [] p = "done" -> 5

\* C1: a call of the entry point never ends by raising an exception to its
\* caller, whatever the address, the amount and the two HTTP outcomes are.
C1_NoUncaughtFault == outcome # "raised"

\* C2: for a malformed address the parse step fails (no discovery URL is
\* produced) and no request is handed to the HTTP transport in that run.
C2_MalformedNoRequest ==
    (~WellFormed(lnaddress) /\ pc # "parse") =>
        (ParsedUrl.t # "str" /\ requests = <<>>)

\* C3: get_bolt11 with an integer amount a and advertised integer bounds
\* min <= max: a*1000 < min raises the too-low error and a*1000 > max the
\* too-high error, neither issuing an invoice request; otherwise the invoice
\* request URL is callback + "?amount=" + str(a*1000).
C3_AmountValidation ==
    (CliBoundsKnown /\ amount.t = "int"
        /\ responses[1].obj["minSendable"].n <= responses[1].obj["maxSendable"].n) =>
        LET lo == responses[1].obj["minSendable"].n
            hi == responses[1].obj["maxSendable"].n
            cb == responses[1].obj["callback"].s
            m == amount.n * 1000
        IN  /\ m < lo => (exc = TooLow /\ Len(requests) = 1)
            /\ m > hi => (exc = TooHigh /\ Len(requests) = 1)
            /\ (lo <= m /\ m <= hi) =>
                  /\ payquery.s = cb \o <<"?amount=">> \o Str(m)
                  /\ exc \notin {TooLow, TooHigh}
                  /\ Len(requests) >= 2 => requests[2] = payquery.s

C3_Witness ==
    /\ CliBoundsKnown /\ amount.t = "int"
    /\ min_amount.n < amount.n * 1000 /\ amount.n * 1000 <= max_amount.n
    /\ Len(requests) = 2
    /\ requests[2] = CallbackUrl \o <<"?amount=">> \o Str(amount.n * 1000)

\* C4: a discovery answer with a non-success status, a non-JSON body or a
\* JSON object missing callback, minSendable or maxSendable stops the run
\* before the invoice hop: no invoice request, and no invoice as the result.
DiscoveryBad(r) ==
    \/ r.status # 200
    \/ ~r.json
    \/ {"callback", "minSendable", "maxSendable"} \ DOMAIN r.obj # {}

C4_DiscoveryFailureStops ==
    (Len(responses) >= 1 /\ ~responses[1].exc /\ DiscoveryBad(responses[1])) =>
        /\ Len(requests) = 1
        /\ pc \notin {"amount", "invoice"}
        /\ ~(outcome = "returned" /\ result.t = "str")

\* C5: in get_bolt11, an invoice answer without pr and with reason r makes
\* the call return exactly the string r (no exception, no error record);
\* when pr is present the (uppercased) invoice is returned, reason or not.
C5_RejectionIsValue ==
    (variant = "cli" /\ Len(responses) = 2 /\ responses[2].json) =>
        LET o == responses[2].obj
        IN  /\ ("pr" \notin DOMAIN o /\ "reason" \in DOMAIN o) =>
                (outcome = "returned" /\ result.t = "str" /\ result.s = o["reason"].s)
            /\ "pr" \in DOMAIN o =>
                (outcome = "returned" /\ result.t = "str"
                 /\ result.s = [i \in 1..Len(o["pr"].s) |-> UpperChar(o["pr"].s[i])])

C5_Witness ==
    /\ variant = "cli" /\ Len(responses) = 2 /\ responses[2].json
    /\ DOMAIN responses[2].obj = {"reason"}
    /\ pc = "done" /\ outcome = "returned" /\ result = PyStr(<<"n", "o">>)

\* C6: an invoice answer that is a JSON object with neither pr nor reason
\* ends the run in an outcome that no answer carrying pr or reason produces.
OutcomeOf(v, o) == IF v = "cli" THEN InvoiceResult(o) ELSE TutInvoiceResult(o)

C6_UnexpectedFormatDistinct ==
    (Len(responses) = 2 /\ responses[2].json /\ DOMAIN responses[2].obj = {}
        /\ (variant = "tutorial" => responses[2].status = 200)) =>
        \A o \in InvoiceObjects :
            DOMAIN o # {} => ~(outcome = "returned" /\ result = OutcomeOf(variant, o))

\* C7: get_bolt11 without an amount, after a discovery that gave the three
\* fields, requests callback + "?amount=" + str(minSendable), unscaled.
C7_DefaultAmountIsMin ==
    (CliBoundsKnown /\ amount.t = "None") =>
        LET q == responses[1].obj["callback"].s \o <<"?amount=">>
                 \o Str(responses[1].obj["minSendable"].n)
        IN  /\ payquery.s = q
            /\ Len(requests) >= 2 => requests[2] = q

C7_Witness ==
    /\ CliBoundsKnown /\ amount.t = "None"
    /\ Len(requests) = 2
    /\ requests[2] = CallbackUrl \o <<"?amount=">> \o Str(min_amount.n)

\* C8: for a well-formed address user@domain both variants produce
\* "https://" + domain + "/.well-known/lnurlp/" + user, and that is the URL
\* of the first request of the run.
C8_DiscoveryUrl ==
    (WellFormed(lnaddress) /\ pc # "parse") =>
        LET u == <<"https://">> \o DomainPart(lnaddress)
                 \o <<"/.well-known/lnurlp/">> \o UserPart(lnaddress)
        IN  /\ ParsedUrl.t = "str" /\ ParsedUrl.s = u
            /\ Len(requests) >= 1 => requests[1] = u

C8_WitnessCli ==
    /\ variant = "cli" /\ WellFormed(lnaddress) /\ Len(requests) >= 1
    /\ UserPart(lnaddress) # DomainPart(lnaddress)
    /\ requests[1] = purl.s

C8_WitnessTutorial ==
    /\ variant = "tutorial" /\ WellFormed(lnaddress) /\ Len(requests) >= 1
    /\ UserPart(lnaddress) # DomainPart(lnaddress)
    /\ requests[1] = discovery_url.s

\* C9: at most one discovery request and one invoice request, the invoice
\* request only after the discovery answer was parsed and the amount step
\* passed, the stage never decreasing, and a run in which a step failed
\* ends by returning an error result.
C9_RequestOrder ==
    /\ Len(requests) <= 2
    /\ Len(requests) = 2 =>
          /\ ~responses[1].exc /\ responses[1].json
          /\ pc \in {"done", "except"}
          /\ IF variant = "cli" THEN payquery.t = "str"
                                ELSE invoice_request_url.t = "str"

C9_FailureEndsInError ==
    (pc = "done" /\ exc # "") =>
        (outcome = "returned" /\ result.t \in {"dict", "None"})

\* the part of C9 that does not depend on how a failure is reported
C9_Structure ==
    /\ []C9_RequestOrder
    /\ [][StageOf(pc') >= StageOf(pc)
          /\ (exc' # exc => pc' \in {"except", "done"})
          /\ (pc \in {"except", "done"} => requests' = requests)]_vars

C9_StrictForward == C9_Structure /\ []C9_FailureEndsInError

\* C10: the amount of every invoice request lies within the bounds the
\* discovery answer of the same run advertised, in both variants.
SentAmountUrls(lo, hi) ==
    {Format(cb) \o <<"?amount=">> \o Str(m) :
        cb \in {PyStr(CallbackUrl), PyNone}, m \in lo..hi}

C10_SentAmountInRange ==
    (Len(requests) = 2
        /\ {"minSendable", "maxSendable"} \subseteq DOMAIN responses[1].obj
        /\ responses[1].obj["minSendable"].n <= responses[1].obj["maxSendable"].n
        /\ amount.t = "int") =>
        requests[2] \in SentAmountUrls(responses[1].obj["minSendable"].n,
                                       responses[1].obj["maxSendable"].n)
====
